---- MODULE Spec2Model ----
(***************************************************************************)
(* Model of the SQL driver adapter described in src/unnamed/part_002:      *)
(* MyQueryable / MyTransaction / MyAdapter (transaction depth state        *)
(* machine over one native connection), and the pure helpers mapArg,       *)
(* mapRow and convertDriverError.                                          *)
(*                                                                         *)
(* Operations are atomic: the contract of the adapter is that no two       *)
(* operations on one connection overlap, so each handler runs from its     *)
(* call to its settlement, the native driver's outcome being chosen        *)
(* nondeterministically.                                                   *)
(***************************************************************************)
EXTENDS Integers, Sequences, FiniteSets, TLC

VARIABLES
    depth,      \* MyAdapter.#transactionDepth
    sent,       \* every statement handed to the native client.query, in order
    txs,        \* the MyTransaction objects created so far, in creation order
    closed,     \* client.close() has completed on the native connection
    last,       \* the operation that ran last and how it settled
    lifo,       \* history: is the run so far start^k (term in LIFO order)^j ?
    fkind,      \* pure-function harness: which function is under evaluation
    fin,        \* pure-function harness: its input
    fout        \* pure-function harness: its output

vars == <<depth, sent, txs, closed, last, lifo, fkind, fin, fout>>

adapterVars == <<depth, sent, txs, closed, last, lifo>>
harnessVars == <<fkind, fin, fout>>

----------------------------------------------------------------------------
(* Bounds of the model *)

MaxTx == 3          \* Transactions a run creates
MaxExtra == 1       \* terminal calls (commit/rollback) beyond the first of a Transaction
MaxSent == 3        \* statements a run hands to the native connection
MaxCols == 2        \* columns of a native result
MaxRows == 2        \* rows of a native result
MaxBytes == 2       \* bytes of a binary argument

----------------------------------------------------------------------------
(* Native errors and the error mapper *)

\* A thrown value: isError is `error instanceof Error`; hasCode / hasErrno say
\* whether the property is present (not undefined).
Thrown(isError, name, hasCode, code, hasErrno, errno, message) ==
    [isError |-> isError, name |-> name, hasCode |-> hasCode, code |-> code,
     hasErrno |-> hasErrno, errno |-> errno, message |-> message]

Mapped(kind, code, extendedCode, severity, message) ==
    [kind |-> kind, code |-> code, extendedCode |-> extendedCode,
     severity |-> severity, message |-> message]

\* JavaScript truthiness of an optional string property
TruthyCode(e) == e.hasCode /\ e.code # ""

DefaultExtendedCode == 1

convertDriverErrorNoUnique(e) ==
    IF e.isError /\ e.hasCode /\ e.code = "23502"
        THEN Mapped("NullConstraintViolation", "", 0, "", "")
    ELSE IF e.isError /\ e.hasCode /\ e.code = "23503"
        THEN Mapped("ForeignKeyConstraintViolation", "", 0, "", "")
    ELSE IF e.isError /\ e.hasCode /\ e.code = "42P01"
        THEN Mapped("TableDoesNotExist", "", 0, "", "")
    ELSE IF e.isError /\ e.name = "SQLiteError"
        THEN Mapped("sqlite", "",
                    IF e.hasErrno THEN e.errno ELSE DefaultExtendedCode,
                    "", e.message)
    ELSE IF e.isError /\ TruthyCode(e)
        THEN Mapped("postgres", e.code, 0, "ERROR", e.message)
    ELSE Mapped("GenericJs", "", 0, "", "")

convertDriverError(e) ==
    IF e.isError /\ e.hasCode /\ e.code = "23505"
        THEN Mapped("UniqueConstraintViolation", "", 0, "", "")
    ELSE IF e.isError /\ e.hasCode /\ e.code = "23502"
        THEN Mapped("NullConstraintViolation", "", 0, "", "")
    ELSE IF e.isError /\ e.hasCode /\ e.code = "23503"
        THEN Mapped("ForeignKeyConstraintViolation", "", 0, "", "")
    ELSE IF e.isError /\ e.hasCode /\ e.code = "42P01"
        THEN Mapped("TableDoesNotExist", "", 0, "", "")
    ELSE IF e.isError /\ e.name = "SQLiteError"
        THEN Mapped("sqlite", "",
                    IF e.hasErrno THEN e.errno ELSE DefaultExtendedCode,
                    "", e.message)
    ELSE IF e.isError /\ TruthyCode(e)
        THEN Mapped("postgres", e.code, 0, "ERROR", e.message)
    ELSE Mapped("GenericJs", "", 0, "", "")

NoMapped == Mapped("", "", 0, "", "")

\* What the native driver throws in the adapter runs
UniqueViolation == Thrown(TRUE, "Error", TRUE, "23505", FALSE, 0, "duplicate key")
ThrownString == Thrown(FALSE, "", FALSE, "", FALSE, 0, "")
ConnectionClosed == Thrown(TRUE, "Error", FALSE, "", FALSE, 0, "connection closed")

NativeErrors == {UniqueViolation}

\* The outcomes of a call on the native connection: a released connection
\* rejects every statement.
NativeOutcomes(isClosed) ==
    IF isClosed THEN {[ok |-> FALSE, error |-> ConnectionClosed]}
    ELSE {[ok |-> TRUE, error |-> ThrownString]}
         \cup {[ok |-> FALSE, error |-> e] : e \in NativeErrors}

----------------------------------------------------------------------------
(* JavaScript values.  A value is a tag t (what typeof / instanceof tell    *)
(* apart) and a payload v, always a sequence of integers:                   *)
(*   string   the character codes (ASCII)                                   *)
(*   number   <<n, k>> for n * 10^-k with no trailing zero, <<>> for NaN    *)
(*   bigint   <<neg, d1, ..., dn>>: sign flag and decimal digits            *)
(*   boolean  <<0>> or <<1>>                                                *)
(*   buffer   the bytes                                                     *)
(*   date     <<days since the epoch, milliseconds of the day>>, <<>> for   *)
(*            an Invalid Date                                               *)
(*   object   <<n>> for the object {"a": n};  array  the elements           *)

Val(t, v) == [t |-> t, v |-> v]

Null == Val("null", <<>>)
Undef == Val("undefined", <<>>)
Str(chars) == Val("string", chars)
Num(n, k) == Val("number", <<n, k>>)
NaN == Val("number", <<>>)
Bool(b) == Val("boolean", <<IF b THEN 1 ELSE 0>>)
Buffer(bytes) == Val("buffer", bytes)
Date(days, ms) == Val("date", <<days, ms>>)
InvalidDate == Val("date", <<>>)
Obj(n) == Val("object", <<n>>)
Arr(elems) == Val("array", elems)
\* The marker of an evaluation that threw
Throw == Val("throw", <<>>)

IsDigit(c) == c >= 48 /\ c <= 57

RECURSIVE SkipSpaces(_)
SkipSpaces(s) == IF s # <<>> /\ s[1] = 32 THEN SkipSpaces(Tail(s)) ELSE s

RECURSIVE DropEndSpaces(_)
DropEndSpaces(s) ==
    IF s # <<>> /\ s[Len(s)] = 32 THEN DropEndSpaces(SubSeq(s, 1, Len(s) - 1)) ELSE s

RECURSIVE TakeDigits(_)
TakeDigits(s) ==
    IF s # <<>> /\ IsDigit(s[1]) THEN <<s[1]>> \o TakeDigits(Tail(s)) ELSE <<>>

RECURSIVE NatOf(_)
NatOf(ds) ==
    IF ds = <<>> THEN 0 ELSE NatOf(SubSeq(ds, 1, Len(ds) - 1)) * 10 + (ds[Len(ds)] - 48)

RECURSIVE DecChars(_)
\* The decimal text of a natural number
DecChars(n) == IF n < 10 THEN <<n + 48>> ELSE DecChars(n \div 10) \o <<(n % 10) + 48>>

Unsigned(s) == IF s # <<>> /\ s[1] \in {43, 45} THEN Tail(s) ELSE s
IsNegative(s) == s # <<>> /\ s[1] = 45

\* Number.parseInt(s, 10)
ParseInt(s) ==
    LET body == Unsigned(SkipSpaces(s))
        ds == TakeDigits(body)
    IN  IF ds = <<>> THEN NaN
        ELSE Num(IF IsNegative(SkipSpaces(s)) THEN 0 - NatOf(ds) ELSE NatOf(ds), 0)

RECURSIVE Normal(_, _)
\* n * 10^-k without trailing zeros in the fraction
Normal(n, k) == IF k > 0 /\ n % 10 = 0 THEN Normal(n \div 10, k - 1) ELSE Num(n, k)

\* Number.parseFloat(s), for texts without an exponent
ParseFloat(s) ==
    LET body == Unsigned(SkipSpaces(s))
        ints == TakeDigits(body)
        rest == SubSeq(body, Len(ints) + 1, Len(body))
        frac == IF rest # <<>> /\ rest[1] = 46 THEN TakeDigits(Tail(rest)) ELSE <<>>
        mag == NatOf(ints \o frac)
    IN  IF ints = <<>> /\ frac = <<>> THEN NaN
        ELSE Normal(IF IsNegative(SkipSpaces(s)) THEN 0 - mag ELSE mag, Len(frac))

RECURSIVE StripZeros(_)
StripZeros(ds) == IF Len(ds) > 1 /\ ds[1] = 0 THEN StripZeros(Tail(ds)) ELSE ds

\* BigInt(s), for decimal texts: the digits are kept whatever their number
BigIntOf(s) ==
    LET t == DropEndSpaces(SkipSpaces(s))
        body == Unsigned(t)
        ds == StripZeros([i \in 1..Len(body) |-> body[i] - 48])
    IN  IF t = <<>> THEN Val("bigint", <<0, 0>>)
        ELSE IF body = <<>> \/ TakeDigits(body) # body THEN Throw
        ELSE Val("bigint", <<IF IsNegative(t) /\ ds # <<0>> THEN 1 ELSE 0>> \o ds)

\* bigint.toString()
BigIntToString(b) ==
    (IF b.v[1] = 1 THEN <<45>> ELSE <<>>) \o [i \in 1..(Len(b.v) - 1) |-> b.v[i + 1] + 48]

\* The value of a character of the base64 alphabet
B64Index(c) ==
    IF c >= 65 /\ c <= 90 THEN c - 65
    ELSE IF c >= 97 /\ c <= 122 THEN c - 71
    ELSE IF IsDigit(c) THEN c + 4
    ELSE IF c = 43 THEN 62
    ELSE 63

RECURSIVE B64Bytes(_)
B64Bytes(ix) ==
    IF Len(ix) >= 4
        THEN <<ix[1] * 4 + ix[2] \div 16,
               (ix[2] % 16) * 16 + ix[3] \div 4,
               (ix[3] % 4) * 64 + ix[4]>> \o B64Bytes(SubSeq(ix, 5, Len(ix)))
    ELSE IF Len(ix) = 3
        THEN <<ix[1] * 4 + ix[2] \div 16, (ix[2] % 16) * 16 + ix[3] \div 4>>
    ELSE IF Len(ix) = 2
        THEN <<ix[1] * 4 + ix[2] \div 16>>
    ELSE <<>>

RECURSIVE UntilPad(_)
UntilPad(s) == IF s = <<>> \/ s[1] = 61 THEN <<>> ELSE <<s[1]>> \o UntilPad(Tail(s))

\* Buffer.from(s, "base64"), for texts over the base64 alphabet
BufferFromBase64(s) ==
    LET data == UntilPad(s)
    IN  Buffer(B64Bytes([i \in 1..Len(data) |-> B64Index(data[i])]))

Pad2(n) == IF n < 10 THEN <<48>> \o DecChars(n) ELSE DecChars(n)
Pad3(n) == IF n < 100 THEN <<48>> \o Pad2(n) ELSE DecChars(n)
Pad4(n) == IF n < 1000 THEN <<48>> \o Pad3(n) ELSE DecChars(n)

\* Date.prototype.toISOString(), for dates from 1970 to 9999
ToISOString(d) ==
    IF d.v = <<>> THEN Throw
    ELSE
    LET z == d.v[1] + 719468
        era == z \div 146097
        doe == z - era * 146097
        yoe == (doe - doe \div 1460 + doe \div 36524 - doe \div 146096) \div 365
        doy == doe - (365 * yoe + yoe \div 4 - yoe \div 100)
        mp == (5 * doy + 2) \div 153
        day == doy - (153 * mp + 2) \div 5 + 1
        month == IF mp < 10 THEN mp + 3 ELSE mp - 9
        year == yoe + era * 400 + (IF month <= 2 THEN 1 ELSE 0)
        ms == d.v[2]
    IN  Str(Pad4(year) \o <<45>> \o Pad2(month) \o <<45>> \o Pad2(day) \o <<84>>
            \o Pad2(ms \div 3600000) \o <<58>> \o Pad2((ms \div 60000) % 60) \o <<58>>
            \o Pad2((ms \div 1000) % 60) \o <<46>> \o Pad3(ms % 1000) \o <<90>>)

RECURSIVE JoinNumbers(_)
JoinNumbers(ns) ==
    IF ns = <<>> THEN <<>>
    ELSE IF Len(ns) = 1 THEN DecChars(ns[1])
    ELSE DecChars(ns[1]) \o <<44>> \o JoinNumbers(Tail(ns))

\* JSON.stringify of a compound value
JSONStringify(x) ==
    IF x.t = "object"
        THEN Str(<<123, 34, 97, 34, 58>> \o DecChars(x.v[1]) \o <<125>>)
    ELSE IF x.t = "buffer"
        THEN Str(<<123, 34, 116, 121, 112, 101, 34, 58, 34, 66, 117, 102, 102, 101,
                   114, 34, 44, 34, 100, 97, 116, 97, 34, 58, 91>>
                 \o JoinNumbers(x.v) \o <<93, 125>>)
    ELSE Str(<<91>> \o JoinNumbers(x.v) \o <<93>>)

\* typeof x === "object", for a value that is not null
IsObject(x) == x.t \in {"object", "array", "buffer", "date"}

----------------------------------------------------------------------------
(* ColumnTypeEnum *)

Int32 == 0
Int64 == 1
Double == 3
Boolean == 5
Text == 7
DateTime == 10
Json == 11
Bytes == 13

----------------------------------------------------------------------------
(* Conversion helpers *)

mapArgNoInt(arg, scalarType, engine) ==
    IF arg.t \in {"null", "undefined"} THEN Null
    ELSE IF arg.t = "string" /\ scalarType = "float" THEN ParseFloat(arg.v)
    ELSE IF arg.t = "string" /\ scalarType = "bigint" THEN BigIntOf(arg.v)
    ELSE IF arg.t = "string" /\ scalarType = "bytes" THEN BufferFromBase64(arg.v)
    ELSE IF arg.t = "boolean" /\ engine = "sqlite" THEN Num(arg.v[1], 0)
    ELSE arg

\* Base64 text decoded to a text of the bytes, as atob does, where mapArg
\* builds a Buffer
mapArgAtob(arg, scalarType, engine) ==
    IF arg.t \in {"null", "undefined"} THEN Null
    ELSE IF arg.t = "string" /\ scalarType = "int" THEN ParseInt(arg.v)
    ELSE IF arg.t = "string" /\ scalarType = "float" THEN ParseFloat(arg.v)
    ELSE IF arg.t = "string" /\ scalarType = "bigint" THEN BigIntOf(arg.v)
    ELSE IF arg.t = "string" /\ scalarType = "bytes" THEN Str(BufferFromBase64(arg.v).v)
    ELSE IF arg.t = "boolean" /\ engine = "sqlite" THEN Num(arg.v[1], 0)
    ELSE arg

\* mapArg(arg, argType); engine stands for the engine test of the boolean rule
mapArg(arg, scalarType, engine) ==
    IF arg.t \in {"null", "undefined"} THEN Null
    ELSE IF arg.t = "string" /\ scalarType = "int" THEN ParseInt(arg.v)
    ELSE IF arg.t = "string" /\ scalarType = "float" THEN ParseFloat(arg.v)
    ELSE IF arg.t = "string" /\ scalarType = "bigint" THEN BigIntOf(arg.v)
    ELSE IF arg.t = "string" /\ scalarType = "bytes" THEN BufferFromBase64(arg.v)
    ELSE IF arg.t = "boolean" /\ engine = "sqlite" THEN Num(arg.v[1], 0)
    ELSE arg

\* columnTypes[i]; -1 stands for undefined
ColAt(columnTypes, i) == IF i <= Len(columnTypes) THEN columnTypes[i] ELSE 0 - 1

\* The loop body with the Json rule tested before the bigint and Date rules
mapCellJsonFirst(cell, colType) ==
    LET value == IF cell.t = "undefined" THEN Null ELSE cell
    IN  IF value = Null THEN Null
        ELSE IF colType = Json /\ IsObject(value) THEN JSONStringify(value)
        ELSE IF value.t = "bigint" THEN Str(BigIntToString(value))
        ELSE IF value.t = "date" THEN ToISOString(value)
        ELSE value

\* One turn of the loop of mapRow: what is pushed for row[i]
mapCell(cell, colType) ==
    LET value == IF cell.t = "undefined" THEN Null ELSE cell
    IN  IF value = Null THEN Null
        ELSE IF value.t = "bigint" THEN Str(BigIntToString(value))
        ELSE IF value.t = "date" THEN ToISOString(value)
        ELSE IF colType = Json /\ IsObject(value) THEN JSONStringify(value)
        ELSE value

RECURSIVE mapRowFromSkipNull(_, _, _, _)
mapRowFromSkipNull(row, columnTypes, i, result) ==
    IF i > Len(row) THEN result
    ELSE mapRowFromSkipNull(row, columnTypes, i + 1,
            IF row[i].t \in {"null", "undefined"} THEN result
            ELSE Append(result, mapCell(row[i], ColAt(columnTypes, i))))

RECURSIVE mapRowFrom(_, _, _, _)
\* The loop of mapRow from index i on, result holding what was pushed so far
mapRowFrom(row, columnTypes, i, result) ==
    IF i > Len(row) THEN result
    ELSE mapRowFrom(row, columnTypes, i + 1,
                    Append(result, mapCell(row[i], ColAt(columnTypes, i))))

mapRow(row, columnTypes) == mapRowFrom(row, columnTypes, 1, <<>>)

\* mapRow threw (toISOString of an Invalid Date)
Threw(mapped) == \E i \in 1..Len(mapped) : mapped[i] = Throw

----------------------------------------------------------------------------
(* Statements *)

Undefined == "undefined"

Statement(op, iso, n, sql) == [op |-> op, iso |-> iso, n |-> n, sql |-> sql]

Begin(level) == Statement("BEGIN", IF level = Undefined THEN "" ELSE level, 0, "")
Savepoint(n) == Statement("SAVEPOINT", "", n, "")
Sql(text) == Statement("SQL", "", 0, text)
Script(text) == Statement("SCRIPT", "", 0, text)

validLevels ==
    {"READ UNCOMMITTED", "READ COMMITTED", "REPEATABLE READ", "SERIALIZABLE"}

\* The levels a caller passes: none, one of the allow-list, one outside it
IsolationArgs == {Undefined, "SERIALIZABLE", "SNAPSHOT"}

IsInvalidLevelMutant(level) == FALSE

IsInvalidLevel(level) == level # Undefined /\ level \notin validLevels

StartStatementMutant(d, level) == Begin(level)

\* The statement startTransaction issues, d being the depth after the increment
StartStatement(d, level) == IF d = 1 THEN Begin(level) ELSE Savepoint(d)

DepthAfterFailedStartMutant(d) == d

\* The catch block of startTransaction: d is the incremented depth
DepthAfterFailedStart(d) == d - 1

ReleaseMutant(d) == d

\* The release callback handed to MyTransaction
Release(d) == d - 1

HookStatementsMutant(hook) == <<Sql(IF hook = "commit" THEN "COMMIT" ELSE "ROLLBACK")>>

\* The statements commit() / rollback() send to the native connection: none
HookStatements(hook) == <<>>

----------------------------------------------------------------------------
(* The record of the operation that ran last *)

Settled(op, target, level, native, cause, threw, wrapped, error, tx) ==
    [op |-> op, target |-> target, level |-> level, native |-> native,
     cause |-> cause, threw |-> threw, wrapped |-> wrapped, error |-> error,
     tx |-> tx]

\* A DriverAdapterError carrying the mapped error; cause is what the native
\* driver threw (ThrownString when the adapter itself raised the error)
ThrewWrapped(op, target, level, native, cause, mapped) ==
    Settled(op, target, level, native, cause, TRUE, TRUE, mapped, 0)

\* A thrown value that is no DriverAdapterError
ThrewNative(op, target, level, native, cause) ==
    Settled(op, target, level, native, cause, TRUE, FALSE, NoMapped, 0)

Returned(op, target, level, native, tx) ==
    Settled(op, target, level, native, ThrownString, FALSE, FALSE, NoMapped, tx)

Open(i) == txs[i].terms = 0

OpenCount == Cardinality({i \in 1..Len(txs) : Open(i)})

\* Terminal calls made on Transactions that had already been terminated
RECURSIVE ExtraTerms(_)
ExtraTerms(n) ==
    IF n = 0 THEN 0
    ELSE ExtraTerms(n - 1) + (IF txs[n].terms > 1 THEN txs[n].terms - 1 ELSE 0)

\* Transaction i is the innermost open one and nothing was terminated twice
IsTop(i) ==
    /\ txs[i].terms = 0
    /\ \A j \in 1..Len(txs) : (j < i => txs[j].terms = 0) /\ (j > i => txs[j].terms = 1)

----------------------------------------------------------------------------
(* Operations of MyAdapter and MyTransaction *)

Init ==
    /\ depth = 0
    /\ sent = <<>>
    /\ txs = <<>>
    /\ closed = FALSE
    /\ last = Returned("none", 0, Undefined, "none", 0)
    /\ lifo = "up"
    /\ fkind = "none"
    /\ fin = <<>>
    /\ fout = <<>>

StartTransactionInvalid(level) ==
    /\ IsInvalidLevel(level)
    /\ last' = ThrewWrapped("startTransaction", 0, level, "none", ThrownString,
                            Mapped("InvalidIsolationLevel", level, 0, "", ""))
    /\ lifo' = "broken"
    /\ UNCHANGED <<depth, sent, txs, closed>>

StartTransactionIssued(level, out) ==
    /\ ~IsInvalidLevel(level)
    /\ Len(sent) < MaxSent
    /\ Len(txs) < MaxTx
    /\ LET d == depth + 1
       IN /\ sent' = Append(sent, StartStatement(d, level))
          /\ IF out.ok
                THEN /\ depth' = d
                     /\ txs' = Append(txs, [stmt |-> StartStatement(d, level), terms |-> 0])
                     /\ last' = Returned("startTransaction", 0, level, "ok", Len(txs) + 1)
                     /\ lifo' = IF lifo = "up" THEN "up" ELSE "broken"
                ELSE /\ depth' = DepthAfterFailedStart(d)
                     /\ txs' = txs
                     /\ last' = ThrewWrapped("startTransaction", 0, level, "fail", out.error,
                                             convertDriverError(out.error))
                     /\ lifo' = "broken"
    /\ UNCHANGED closed

StartTransaction ==
    \E level \in IsolationArgs :
        \/ StartTransactionInvalid(level)
        \/ \E out \in NativeOutcomes(closed) : StartTransactionIssued(level, out)

\* commit() and rollback() of Transaction i
Terminal(i, hook) ==
    /\ txs[i].terms = 0 \/ ExtraTerms(Len(txs)) < MaxExtra
    /\ Len(sent) + Len(HookStatements(hook)) <= MaxSent
    /\ depth' = Release(depth)
    /\ sent' = sent \o HookStatements(hook)
    /\ txs' = [txs EXCEPT ![i].terms = @ + 1]
    /\ last' = Returned(hook, i, Undefined, "none", 0)
    /\ lifo' = IF lifo # "broken" /\ IsTop(i) THEN "down" ELSE "broken"
    /\ UNCHANGED closed

Commit == \E i \in 1..Len(txs) : Terminal(i, "commit")

Rollback == \E i \in 1..Len(txs) : Terminal(i, "rollback")

\* A Queryable that releases a depth slot when the text it runs is COMMIT
QueryReleasingOnCommit(op, target, text, out) ==
    /\ Len(sent) < MaxSent
    /\ sent' = Append(sent, Sql(text))
    /\ last' = IF out.ok
                  THEN Returned(op, target, Undefined, "ok", 0)
                  ELSE ThrewWrapped(op, target, Undefined, "fail", out.error,
                                    convertDriverError(out.error))
    /\ depth' = IF text = "COMMIT" THEN depth - 1 ELSE depth
    /\ UNCHANGED <<txs, closed, lifo>>

\* queryRaw / executeRaw of MyQueryable, on the adapter (target 0) or on
\* Transaction target: both run on the one native connection.  The queries of
\* these runs carry no arguments; the mapping of arguments and rows is
\* evaluated by queryRawResult under SpecQuery.
Query(op, target, text, out) ==
    /\ Len(sent) < MaxSent
    /\ sent' = Append(sent, Sql(text))
    /\ last' = IF out.ok
                  THEN Returned(op, target, Undefined, "ok", 0)
                  ELSE ThrewWrapped(op, target, Undefined, "fail", out.error,
                                    convertDriverError(out.error))
    /\ UNCHANGED <<depth, txs, closed, lifo>>

QueryRaw ==
    \E target \in 0..Len(txs), out \in NativeOutcomes(closed) :
        Query("queryRaw", target, "SELECT", out)

ExecuteRaw ==
    \E target \in 0..Len(txs), out \in NativeOutcomes(closed) :
        \E text \in IF target = 0 THEN {"INSERT"} ELSE {"COMMIT"} :
            Query("executeRaw", target, text, out)

ExecuteScript ==
    \E out \in NativeOutcomes(closed) :
        /\ Len(sent) < MaxSent
        /\ sent' = Append(sent, Script("SCRIPT"))
        /\ last' = IF out.ok
                      THEN Returned("executeScript", 0, Undefined, "ok", 0)
                      ELSE ThrewWrapped("executeScript", 0, Undefined, "fail", out.error,
                                        convertDriverError(out.error))
        /\ UNCHANGED <<depth, txs, closed, lifo>>

\* dispose(): client.close() with no try/catch around it
Dispose ==
    \E out \in NativeOutcomes(FALSE) :
        /\ closed' = (closed \/ out.ok)
        /\ last' = IF out.ok
                      THEN Returned("dispose", 0, Undefined, "ok", 0)
                      ELSE ThrewNative("dispose", 0, Undefined, "fail", out.error)
        /\ UNCHANGED <<depth, sent, txs, lifo>>

Next ==
    \/ (StartTransaction /\ UNCHANGED harnessVars)
    \/ (Commit /\ UNCHANGED harnessVars)
    \/ (Rollback /\ UNCHANGED harnessVars)
    \/ (QueryRaw /\ UNCHANGED harnessVars)
    \/ (ExecuteRaw /\ UNCHANGED harnessVars)
    \/ (ExecuteScript /\ UNCHANGED harnessVars)
    \/ (Dispose /\ UNCHANGED harnessVars)

Spec == Init /\ [][Next]_vars

----------------------------------------------------------------------------
(* queryRaw as a function of the query and of what the native driver does *)

ColumnName(i) == <<"id", "name", "data", "extra">>[i]

\* columnNames and columnTypes as taken from the driver's field metadata
ColumnNames(result) == [i \in 1..Len(result.fields) |-> result.fields[i].name]
ColumnTypes(result) == [i \in 1..Len(result.fields) |-> result.fields[i].type]

ArgTypeAt(argTypes, i) == IF i <= Len(argTypes) THEN argTypes[i] ELSE "unknown"

QueryThrew(error) ==
    [threw |-> TRUE, error |-> convertDriverError(error),
     columnNames |-> <<>>, columnTypes |-> <<>>, rows |-> <<>>]

\* The body of MyQueryable.queryRaw: q is the query, native what client.query
\* does with it (a result, or a thrown value)
queryRawResult(q, native) ==
    LET args == [i \in 1..Len(q.args) |->
                    mapArg(q.args[i], ArgTypeAt(q.argTypes, i), "postgres")]
        columnTypes == ColumnTypes(native.result)
        rows == [r \in 1..Len(native.result.rows) |->
                    mapRow(native.result.rows[r], columnTypes)]
    IN  IF \E i \in 1..Len(args) : args[i] = Throw
            THEN QueryThrew(Thrown(TRUE, "SyntaxError", FALSE, "", FALSE, 0, "not a BigInt"))
        ELSE IF ~native.ok THEN QueryThrew(native.error)
        ELSE IF \E r \in 1..Len(rows) : Threw(rows[r])
            THEN QueryThrew(Thrown(TRUE, "RangeError", FALSE, "", FALSE, 0, "Invalid time value"))
        ELSE [threw |-> FALSE, error |-> NoMapped,
              columnNames |-> ColumnNames(native.result),
              columnTypes |-> columnTypes, rows |-> rows]

----------------------------------------------------------------------------
(* Evaluation of the pure functions on inputs drawn from bounded sets *)

AdapterIdle ==
    /\ depth = 0
    /\ sent = <<>>
    /\ txs = <<>>
    /\ closed = FALSE
    /\ last = Returned("none", 0, Undefined, "none", 0)
    /\ lifo = "up"

Evaluate(fn, result) ==
    /\ fkind = fn
    /\ fout = <<>>
    /\ fout' = <<result>>
    /\ UNCHANGED <<fkind, fin>>
    /\ UNCHANGED adapterVars

\* convertDriverError
ErrorCodes == {"23505", "23502", "23503", "42P01", "40001", "SQLITE_BUSY", ""}

ThrownValues ==
    {Thrown(isError, name, hasCode, IF hasCode THEN code ELSE "",
            hasErrno, IF hasErrno THEN errno ELSE 0, message) :
        isError \in BOOLEAN, name \in {"Error", "SQLiteError"},
        hasCode \in BOOLEAN, code \in ErrorCodes,
        hasErrno \in BOOLEAN, errno \in {5, 19}, message \in {"m1", "m2"}}

InitErr == AdapterIdle /\ fkind = "convertDriverError" /\ fin \in ThrownValues /\ fout = <<>>

ConvertDriverError == Evaluate("convertDriverError", convertDriverError(fin))

SpecErr == InitErr /\ [][ConvertDriverError]_vars

\* queryRaw
Cells == {Undef, Val("bigint", <<0, 5>>), Obj(1)}

\* The sequences of length n over S
SeqsOf(S, n) == [1..n -> S]

SeqsUpTo(S, n) == UNION {SeqsOf(S, k) : k \in 0..n}

\* What the driver returns: one value per field in every row
NativeResult(types, rows) ==
    [fields |-> [i \in 1..Len(types) |-> [name |-> ColumnName(i), type |-> types[i]]],
     rows |-> rows]

EmptyResult == NativeResult(<<>>, <<>>)

NoArgs == [args |-> <<>>, argTypes |-> <<>>]

\* The driver fails, or mapArg throws on an argument that is no BigInt text
FailingQueries ==
    {[query |-> NoArgs,
      native |-> [ok |-> FALSE, error |-> UniqueViolation, result |-> EmptyResult]],
     [query |-> [args |-> <<Str(<<122>>)>>, argTypes |-> <<"bigint">>],
      native |-> [ok |-> TRUE, error |-> ThrownString, result |-> EmptyResult]]}

InitQuery ==
    /\ AdapterIdle
    /\ fkind = "queryRaw"
    /\ fout = <<>>
    /\ \/ fin \in FailingQueries
       \/ \E nc \in 0..MaxCols, nr \in 0..MaxRows :
             \E types \in SeqsOf({Int64, Json}, nc) :
                \E rows \in SeqsOf(SeqsOf(Cells, nc), nr) :
                   fin = [query |-> NoArgs,
                          native |-> [ok |-> TRUE, error |-> ThrownString,
                                      result |-> NativeResult(types, rows)]]

QueryRawCall == Evaluate("queryRaw", queryRawResult(fin.query, fin.native))

SpecQuery == InitQuery /\ [][QueryRawCall]_vars

\* mapArg then mapRow
B64Char(i) ==
    IF i < 26 THEN i + 65 ELSE IF i < 52 THEN i + 71 ELSE IF i < 62 THEN i - 4
    ELSE IF i = 62 THEN 43 ELSE 47

RECURSIVE Base64Text(_)
\* The base64 text the caller sends for a sequence of bytes
Base64Text(b) ==
    IF b = <<>> THEN <<>>
    ELSE IF Len(b) = 1
        THEN <<B64Char(b[1] \div 4), B64Char((b[1] % 4) * 16), 61, 61>>
    ELSE IF Len(b) = 2
        THEN <<B64Char(b[1] \div 4), B64Char((b[1] % 4) * 16 + b[2] \div 16),
               B64Char((b[2] % 16) * 4), 61>>
    ELSE <<B64Char(b[1] \div 4), B64Char((b[1] % 4) * 16 + b[2] \div 16),
           B64Char((b[2] % 16) * 4 + b[3] \div 64), B64Char(b[3] % 64)>>
         \o Base64Text(SubSeq(b, 4, Len(b)))

IntText(n) == IF n < 0 THEN <<45>> \o DecChars(0 - n) ELSE DecChars(n)

\* A logical value of a scalar kind, the form the caller passes it in (wire),
\* and the column type the driver reports for it
Sample(kind, colType, logical, wire) ==
    [kind |-> kind, colType |-> colType, logical |-> logical, wire |-> wire]

IntSamples ==
    UNION {{Sample("int", Int32, Num(n, 0), Num(n, 0)),
            Sample("int", Int32, Num(n, 0), Str(IntText(n)))} : n \in (0 - 3)..42}

FloatSamples ==
    {Sample("float", Double, Num(314, 2), Num(314, 2)),
     Sample("float", Double, Num(314, 2), Str(<<51, 46, 49, 52>>)),
     Sample("float", Double, Num(0 - 5, 1), Str(<<45, 48, 46, 53>>)),
     Sample("float", Double, Num(25, 1), Str(<<50, 46, 53>>))}

\* "9223372036854775807", "-42", "0", "12345678901234567890123"
BigIntTexts ==
    {<<57, 50, 50, 51, 51, 55, 50, 48, 51, 54, 56, 53, 52, 55, 55, 53, 56, 48, 55>>,
     <<45, 52, 50>>, <<48>>,
     <<49, 50, 51, 52, 53, 54, 55, 56, 57, 48, 49, 50, 51, 52, 53, 54, 55, 56, 57, 48,
       49, 50, 51>>}

BigIntSamples ==
    {Sample("bigint", Int64, Str(text), Str(text)) : text \in BigIntTexts}
    \cup {Sample("bigint", Int64, Str(<<45, 52, 50>>), Val("bigint", <<1, 4, 2>>))}

BytesSamples ==
    UNION {{Sample("bytes", Bytes, Buffer(b), Buffer(b)),
            Sample("bytes", Bytes, Buffer(b), Str(Base64Text(b)))} :
        b \in SeqsUpTo({0, 1, 250, 255}, MaxBytes)}

BooleanSamples == {Sample("boolean", Boolean, Bool(b), Bool(b)) : b \in BOOLEAN}

JsonSamples ==
    {Sample("json", Json, Obj(n), Obj(n)) : n \in 0..3}
    \cup {Sample("json", Json, Arr(<<1, 20>>), Arr(<<1, 20>>))}

DateSamples ==
    {Sample("datetime", DateTime, Date(d, ms), Date(d, ms)) :
        d \in {0, 11016, 19723, 19782}, ms \in {0, 45296789, 86399999}}

Samples ==
    IntSamples \cup FloatSamples \cup BigIntSamples \cup BytesSamples
    \cup BooleanSamples \cup JsonSamples \cup DateSamples

Engines == {"postgres", "sqlite"}

InitMap ==
    /\ AdapterIdle
    /\ fkind = "roundTrip"
    /\ fin \in {[sample |-> x, engine |-> e] : x \in Samples, e \in Engines}
    /\ fout = <<>>

RoundTrip ==
    Evaluate("roundTrip",
             mapRow(<<mapArg(fin.sample.wire, fin.sample.kind, fin.engine)>>,
                    <<fin.sample.colType>>)[1])

SpecMap == InitMap /\ [][RoundTrip]_vars

\* mapRow
\* 9223372036854775807 and -42 as BigInt
RowCells ==
    {Null, Undef, NaN, Num(42, 0), Str(<<52, 50>>), Bool(TRUE),
     Val("bigint", <<0, 9, 2, 2, 3, 3, 7, 2, 0, 3, 6, 8, 5, 4, 7, 7, 5, 8, 0, 7>>),
     Val("bigint", <<1, 4, 2>>),
     Date(19723, 45296789), InvalidDate, Obj(1), Arr(<<1, 20>>), Buffer(<<1, 2>>)}

RowColumnTypes == {Int64, Json, Text}

\* mapRow(row, columnTypes), a throw of toISOString ending the call
mapRowResult(row, columnTypes) ==
    LET mapped == mapRow(row, columnTypes)
    IN  [threw |-> Threw(mapped), row |-> IF Threw(mapped) THEN <<>> ELSE mapped]

InitRow ==
    /\ AdapterIdle
    /\ fkind = "mapRow"
    /\ fin \in {[row |-> r, columnTypes |-> t] :
                    r \in SeqsUpTo(RowCells, MaxCols),
                    t \in SeqsUpTo(RowColumnTypes, MaxCols)}
    /\ fout = <<>>

MapRow == Evaluate("mapRow", mapRowResult(fin.row, fin.columnTypes))

SpecRow == InitRow /\ [][MapRow]_vars

\* mapArg applied to its own result
ArgScalarTypes ==
    {"string", "int", "bigint", "float", "decimal", "boolean", "enum", "uuid",
     "json", "datetime", "bytes", "unknown"}

\* "42", " -42z", "abc", "3.10", "", "AQID", "AQ==", "1", "0"
ArgTexts ==
    {<<52, 50>>, <<32, 45, 52, 50, 122>>, <<97, 98, 99>>, <<51, 46, 49, 48>>, <<>>,
     <<65, 81, 73, 68>>, <<65, 81, 61, 61>>, <<49>>, <<48>>}

ArgValues ==
    {Null, Undef, NaN, Num(0, 0), Num(1, 0), Num(42, 0), Num(0 - 7, 0), Num(314, 2),
     Val("bigint", <<0, 0>>), Val("bigint", <<1, 4, 2>>),
     Val("bigint", <<0, 9, 2, 2, 3, 3, 7, 2, 0, 3, 6, 8, 5, 4, 7, 7, 5, 8, 0, 7>>),
     Bool(TRUE), Bool(FALSE), Buffer(<<>>), Buffer(<<1, 2, 3>>),
     Date(19723, 45296789), Obj(1), Arr(<<1, 20>>)}
    \cup {Str(text) : text \in ArgTexts}

\* A text of more digits than a machine integer holds, for the types that
\* keep every digit of it
LongTextArgs ==
    {[arg |-> Str(text), scalarType |-> t, engine |-> e] :
        text \in BigIntTexts, t \in ArgScalarTypes \ {"int", "float"}, e \in Engines}

\* mapArg(mapArg(arg, argType), argType), a throw of the first call ending
\* the evaluation
mapArgTwice(arg, scalarType, engine) ==
    LET once == mapArg(arg, scalarType, engine)
    IN  [once |-> once,
         twice |-> IF once = Throw THEN Throw ELSE mapArg(once, scalarType, engine)]

InitArg ==
    /\ AdapterIdle
    /\ fkind = "mapArgTwice"
    /\ fin \in {[arg |-> v, scalarType |-> t, engine |-> e] :
                    v \in ArgValues, t \in ArgScalarTypes, e \in Engines}
               \cup LongTextArgs
    /\ fout = <<>>

MapArgTwice == Evaluate("mapArgTwice", mapArgTwice(fin.arg, fin.scalarType, fin.engine))

SpecArg == InitArg /\ [][MapArgTwice]_vars

----------------------------------------------------------------------------
(* Properties of the transaction depth state machine *)

Hooks == {"commit", "rollback"}

CountOp(op) == Cardinality({k \in 1..Len(sent) : sent[k].op = op})

AllTerminatedOnce == \A i \in 1..Len(txs) : txs[i].terms = 1

\* C1: after N >= 1 successful nested startTransaction calls followed by N
\* terminal calls, one per Transaction in strict LIFO order, the depth is 0
\* and the connection has received exactly one BEGIN and N-1 SAVEPOINTs.
C1_NestedLifoBalanced ==
    (lifo = "down" /\ AllTerminatedOnce) =>
        /\ depth = 0
        /\ CountOp("BEGIN") = 1
        /\ CountOp("SAVEPOINT") = Len(txs) - 1

C1_Witness == lifo = "down" /\ AllTerminatedOnce /\ Len(txs) = 3

\* C2: commit() and rollback() hand no statement to the native connection and
\* leave the connection as it is, their effect being the one decrement of the
\* release callback; a COMMIT or ROLLBACK text reaches the connection only in
\* a step that is an executeRaw on a Transaction.
C2_HooksSendNothing ==
    [][ /\ (last'.op \in Hooks =>
                sent' = sent /\ closed' = closed /\ depth' = depth - 1)
        /\ (/\ Len(sent') > Len(sent)
            /\ sent'[Len(sent')].op = "SQL"
            /\ sent'[Len(sent')].sql \in {"COMMIT", "ROLLBACK"})
               => (last'.op = "executeRaw" /\ last'.target > 0) ]_vars

C2_Witness ==
    /\ last.op = "commit"
    /\ \E k \in 1..Len(sent) : sent[k] = Sql("COMMIT")
    /\ depth = 0

\* C3: startTransaction with a supplied isolation level outside the allow-list
\* throws the wrapped error InvalidIsolationLevel carrying that level, and
\* changes neither the depth nor what the connection has received, at any depth.
C3_InvalidLevelRejected ==
    [][ (/\ last'.op = "startTransaction"
         /\ last'.level # Undefined
         /\ last'.level \notin validLevels)
            => /\ last'.threw /\ last'.wrapped
               /\ last'.error.kind = "InvalidIsolationLevel"
               /\ last'.error.code = last'.level
               /\ last'.tx = 0
               /\ depth' = depth
               /\ sent' = sent
               /\ txs' = txs ]_vars

C3_Witness ==
    /\ last.op = "startTransaction"
    /\ last.error.kind = "InvalidIsolationLevel"
    /\ last.level = "SNAPSHOT"
    /\ depth = 2

\* C4: when the BEGIN or SAVEPOINT of startTransaction fails natively, the
\* depth is back at its value before the call, the wrapped error is thrown,
\* no Transaction is returned, and the depth equals the number of Transactions
\* started and not yet terminated.
C4_FailedStartKeepsDepthReal ==
    [][ (last'.op = "startTransaction" /\ last'.native = "fail")
            => /\ depth' = depth
               /\ last'.threw /\ last'.wrapped
               /\ last'.tx = 0
               /\ txs' = txs
               /\ depth' = OpenCount' ]_vars

\* The part of C4 the catch block of startTransaction decides by itself
FailedStartRestoresDepth ==
    [][ (last'.op = "startTransaction" /\ last'.native = "fail")
            => /\ depth' = depth
               /\ last'.threw /\ last'.wrapped
               /\ last'.tx = 0
               /\ txs' = txs ]_vars

\* C5: once dispose() has completed, queryRaw, executeRaw, executeScript and
\* startTransaction on the Adapter fail with an "adapter closed" condition and
\* hand nothing to the released connection.
C5_ClosedAdapterRejects ==
    [][ (/\ closed
         /\ last'.op \in {"queryRaw", "executeRaw", "executeScript", "startTransaction"}
         /\ last'.target = 0)
            => /\ last'.threw
               /\ last'.error.kind = "AdapterClosed"
               /\ sent' = sent ]_vars

\* C6: a Transaction releases the depth slot at most once: a terminal call on
\* a Transaction already terminated leaves the depth as it is, and the depth
\* is never negative.
C6_ReleaseAtMostOnce ==
    /\ [](depth >= 0)
    /\ [][ (last'.op \in Hooks /\ txs[last'.target].terms >= 1)
              => depth' = depth ]_vars

\* C7: whenever the native driver fails during an operation, the caller
\* receives the wrapped error carrying a MappedError from the error mapper.
C7_NativeFailuresWrapped ==
    [][ last'.native = "fail"
            => /\ last'.threw
               /\ last'.wrapped
               /\ last'.error.kind # "" ]_vars

\* C12: a startTransaction whose isolation level is absent or in the
\* allow-list hands exactly one statement to the connection, whether the
\* statement succeeds or fails: with d the depth after the increment, BEGIN
\* when d = 1, carrying the isolation clause exactly when a level was supplied,
\* and SAVEPOINT sp_d when d > 1, which is no BEGIN and carries no level.
C12_StartStatementByDepth ==
    [][ (/\ last'.op = "startTransaction"
         /\ (last'.level = Undefined \/ last'.level \in validLevels))
            => LET d == depth + 1
                   st == sent'[Len(sent')]
               IN  /\ Len(sent') = Len(sent) + 1
                   /\ SubSeq(sent', 1, Len(sent)) = sent
                   /\ d = 1 =>
                         /\ st.op = "BEGIN"
                         /\ st.iso = (IF last'.level = Undefined THEN "" ELSE last'.level)
                   /\ d > 1 =>
                         /\ st.op = "SAVEPOINT"
                         /\ st.n = d
                         /\ st.iso = "" ]_vars

\* The second nested call, made with a level, issued SAVEPOINT sp_2
C12_Witness ==
    /\ last.op = "startTransaction"
    /\ last.level = "SERIALIZABLE"
    /\ last.native = "ok"
    /\ depth = 2
    /\ Len(txs) = 2
    /\ sent = <<Begin(Undefined), Savepoint(2)>>

\* No Transaction has received more than one terminal call
TerminatedAtMostOnce == \A i \in 1..Len(txs) : txs[i].terms <= 1

\* C14: as long as no Transaction has received a second terminal call, in
\* whatever order the terminal calls came, the depth equals the number of
\* Transactions returned by a successful startTransaction and not yet
\* committed or rolled back, and is not negative.
C14_DepthCountsOpen ==
    TerminatedAtMostOnce => (depth = OpenCount /\ depth >= 0)

\* The outer Transaction was terminated before the inner one, after a start
\* that failed
C14_Witness ==
    /\ TerminatedAtMostOnce
    /\ Len(txs) = 2
    /\ Len(sent) = 3
    /\ txs[1].terms = 1
    /\ txs[2].terms = 0
    /\ last.op \in Hooks
    /\ last.target = 1
    /\ depth = 1

\* Transactions i and j were started with the same statement: both with
\* BEGIN, or both with SAVEPOINT of the same name
SameStartStatement(i, j) ==
    /\ txs[i].stmt.op = txs[j].stmt.op
    /\ txs[i].stmt.op = "SAVEPOINT" => txs[i].stmt.n = txs[j].stmt.n

\* C15: as long as no Transaction has been terminated twice, in whatever
\* order the terminal calls came, no two Transactions that are open at the
\* same time were started with the same statement: a SAVEPOINT name is not
\* issued again while the Transaction that created it is open, and BEGIN is
\* not issued while an earlier Transaction is open.
C15_OpenStatementsDistinct ==
    TerminatedAtMostOnce =>
        \A i, j \in 1..Len(txs) :
            (i < j /\ Open(i) /\ Open(j)) => ~SameStartStatement(i, j)

\* C16: a queryRaw or executeRaw, on the Adapter or on a Transaction, ok or
\* failed, and whatever its text, leaves the depth as it is; the depth changes
\* only in a startTransaction that succeeds (+1) and in a commit() or
\* rollback() (-1).
C16_QueriesKeepDepth ==
    [][ /\ last'.op \in {"queryRaw", "executeRaw"} => depth' = depth
        /\ depth' # depth =>
              \/ /\ last'.op = "startTransaction"
                 /\ last'.native = "ok"
                 /\ depth' = depth + 1
              \/ /\ last'.op \in Hooks
                 /\ depth' = depth - 1 ]_vars

\* COMMIT was run through the executeRaw of the one open Transaction
C16_Witness ==
    /\ last.op = "executeRaw"
    /\ last.target = 1
    /\ sent = <<Begin(Undefined), Sql("COMMIT")>>
    /\ txs[1].terms = 0
    /\ depth = 1

----------------------------------------------------------------------------
(* Properties of the pure functions *)

TableKind(code) ==
    IF code = "23505" THEN "UniqueConstraintViolation"
    ELSE IF code = "23502" THEN "NullConstraintViolation"
    ELSE IF code = "23503" THEN "ForeignKeyConstraintViolation"
    ELSE "TableDoesNotExist"

TableCodes == {"23505", "23502", "23503", "42P01"}

InTable(e) == e.isError /\ e.hasCode /\ e.code \in TableCodes

Converted == fkind = "convertDriverError" /\ fout # <<>>

\* C8 (as stated): the mapper yields one variant per input: the named kind for
\* a code of the table; for an error with any other code or with an engine
\* name, the passthrough variant carrying the raw code and the message; the
\* generic fallback for a value that is no error or has neither code nor
\* engine name.
C8_MapperAsStated ==
    Converted =>
        LET e == fin
            m == fout[1]
        IN  /\ InTable(e) => m = Mapped(TableKind(e.code), "", 0, "", "")
            /\ (e.isError /\ ~InTable(e) /\ (e.hasCode \/ e.name = "SQLiteError"))
                  => /\ m.kind \in {"postgres", "sqlite"}
                     /\ m.message = e.message
                     /\ e.hasCode => m.code = e.code
            /\ (~e.isError \/ (~e.hasCode /\ e.name # "SQLiteError"))
                  => m.kind = "GenericJs"

\* C8 (amended): the named kind for a code of the table; for any other error
\* named SQLiteError the sqlite variant carrying the errno (1 when there is
\* none) and the message, not the code; for any other error with a non-empty
\* code the postgres variant carrying the code and the message; the generic
\* fallback for every other value.
C8_MapperTotal ==
    Converted =>
        LET e == fin
            m == fout[1]
        IN  IF InTable(e) THEN m = Mapped(TableKind(e.code), "", 0, "", "")
            ELSE IF e.isError /\ e.name = "SQLiteError"
                THEN /\ m.kind = "sqlite"
                     /\ m.extendedCode = (IF e.hasErrno THEN e.errno ELSE 1)
                     /\ m.message = e.message
                     /\ m.code = ""
            ELSE IF e.isError /\ e.hasCode /\ e.code # ""
                THEN /\ m.kind = "postgres"
                     /\ m.code = e.code
                     /\ m.message = e.message
            ELSE m = Mapped("GenericJs", "", 0, "", "")

C8_Witness ==
    /\ Converted
    /\ fin.isError /\ fin.name = "SQLiteError" /\ fin.hasCode /\ fin.code = "SQLITE_BUSY"
    /\ ~fin.hasErrno
    /\ fout[1].kind = "sqlite"

RoundTripped == fkind = "roundTrip" /\ fout # <<>>

\* "YYYY-MM-DDTHH:mm:ss.sssZ"
IsIsoText(x) ==
    /\ x.t = "string"
    /\ Len(x.v) = 24
    /\ \A i \in 1..24 :
          IF i \in {5, 8} THEN x.v[i] = 45
          ELSE IF i = 11 THEN x.v[i] = 84
          ELSE IF i \in {14, 17} THEN x.v[i] = 58
          ELSE IF i = 20 THEN x.v[i] = 46
          ELSE IF i = 24 THEN x.v[i] = 90
          ELSE IsDigit(x.v[i])

MappedTwice == fkind = "mapArgTwice" /\ fout # <<>>

\* number, arbitrary-precision integer, binary buffer, 0/1, null
IsNativeForm(x) == x.t \in {"number", "bigint", "buffer", "null"}

\* C11: mapArg is idempotent: for every value and every ArgType, mapping the
\* mapped value again under the same ArgType gives the mapped value (a first
\* call that throws has nothing to map again), and a value already in native
\* form (number, arbitrary-precision integer, binary buffer, 0/1, null) is
\* returned unchanged by the first call.
C11_MapArgIdempotent ==
    MappedTwice =>
        /\ fout[1].twice = fout[1].once
        /\ IsNativeForm(fin.arg) => fout[1].once = fin.arg

\* base64 text under bytes became a Buffer, and stayed that Buffer
C11_Witness ==
    /\ MappedTwice
    /\ fin.arg = Str(<<65, 81, 73, 68>>)
    /\ fin.scalarType = "bytes"
    /\ fout[1].once = Buffer(<<1, 2, 3>>)
    /\ fout[1].twice = Buffer(<<1, 2, 3>>)

MappedRow == fkind = "mapRow" /\ fout # <<>>

\* The decimal text of an arbitrary-precision integer, digit for digit
DecimalText(b) ==
    LET digits == Tail(b.v)
        text == [i \in 1..Len(digits) |-> digits[i] + 48]
    IN  Str(IF b.v[1] = 1 THEN <<45>> \o text ELSE text)

\* What the rules of row mapping, in their priority, give for one value
RowRuleHolds(cell, colType, out) ==
    IF cell \in {Null, Undef} THEN out = Null
    ELSE IF cell.t = "bigint"
        THEN /\ out = DecimalText(cell)
             /\ Len(out.v) >= Len(cell.v) - 1
    ELSE IF cell.t = "date"
        THEN /\ IsIsoText(out)
             /\ cell = Date(19723, 45296789) =>
                   out = Str(<<50, 48, 50, 52, 45, 48, 49, 45, 48, 49, 84, 49, 50,
                               58, 51, 52, 58, 53, 54, 46, 55, 56, 57, 90>>)
    ELSE IF colType = Json /\ cell.t \in {"object", "array", "buffer"}
        THEN /\ out.t = "string"
             /\ cell = Obj(1) => out = Str(<<123, 34, 97, 34, 58, 49, 125>>)
             /\ cell = Arr(<<1, 20>>) => out = Str(<<91, 49, 44, 50, 48, 93>>)
    ELSE out = cell

====
